---------------------------- MODULE Spec2Model ----------------------------
(***************************************************************************)
(* A model of the raysurfer command-line client: the pydantic schema       *)
(* layer (types.py), the synchronous and asynchronous HTTP clients         *)
(* (client.py) and the typer commands (cli.py).                            *)
(*                                                                         *)
(* One behaviour is either one invocation of the command line (entry =     *)
(* "cli") or one embedding program that uses a client object directly      *)
(* (entry = "api").                                                        *)
(***************************************************************************)
EXTENDS Integers, Sequences, FiniteSets, TLC

\* ------------------------------------------------------------------ bounds
\* The longest list of --file options of one upload invocation.
MaxFiles == 2
\* The longest list of matches, patterns or examples in a server response.
MaxMatches == 3
\* The most operations one embedding program issues on its client.
MaxCalls == 2

\* ------------------------------------------------------ untyped values
\* A value before validation: a JSON document decoded by resp.json(), or a
\* keyword argument handed to a model's constructor. Floats are carried in
\* thousandths.
DNull == [k |-> "null"]
DBool(b) == [k |-> "bool", b |-> b]
DInt(n) == [k |-> "int", n |-> n]
DFloat(th) == [k |-> "float", n |-> th]
DStr(s) == [k |-> "str", s |-> s]
DList(items) == [k |-> "list", items |-> items]
DObj(f) == [k |-> "obj", f |-> f]
\* An instance of a model, handed to another model's constructor.
DModel(m) == [k |-> "model", m |-> m]
\* A response body that is not a JSON document at all.
NotJson == [k |-> "notjson"]

\* Python's None, as the value of an Optional field.
PyNone == [py_none |-> TRUE]

\* The decimal strings of the model, with the number each one denotes.
IntOfStr == ("0" :> 0) @@ ("1" :> 1) @@ ("2" :> 2) @@ ("7" :> 7)
\* The strings pydantic reads as booleans.
TrueStrings == {"1", "true", "yes", "on", "t", "y"}
FalseStrings == {"0", "false", "no", "off", "f", "n"}

Ok(v) == [ok |-> TRUE, v |-> v]
Err == [ok |-> FALSE]

Range(s) == {s[i] : i \in DOMAIN s}

\* ------------------------------------------------------- schema layer
\* The declared fields of every model of types.py: the field's type, whether
\* it is required, and its default.
Req(ty) == [type |-> ty, required |-> TRUE]
Opt(ty, d) == [type |-> ty, required |-> FALSE, default |-> d]

Schema(T) ==
    CASE T = "SearchRequest" ->
           [task |-> Req("str"), top_k |-> Opt("int", 5),
            min_verdict_score |-> Opt("float", 0),
            prefer_complete |-> Opt("bool", TRUE)]
      [] T = "UploadFile" ->
           [path |-> Req("str"), content |-> Req("str")]
      [] T = "UploadRequest" ->
           [task |-> Req("str"), file_written |-> Req("UploadFile"),
            succeeded |-> Opt("bool", TRUE), auto_vote |-> Opt("bool", TRUE)]
      [] T = "VoteRequest" ->
           [code_block_id |-> Req("str"), succeeded |-> Req("bool"),
            task |-> Req("str"), code_block_name |-> Opt("str", ""),
            code_block_description |-> Opt("str", "")]
      [] T = "PatternsRequest" ->
           [task |-> Req("str"), code_block_id |-> Opt("str", ""),
            min_thumbs_up |-> Opt("int", 1), top_k |-> Opt("int", 5)]
      [] T = "FewShotRequest" ->
           [task |-> Req("str"), k |-> Opt("int", 3)]
      [] T = "CodeBlock" ->
           [id |-> Opt("str", ""), name |-> Opt("str", ""),
            description |-> Opt("str", ""), source |-> Opt("str", ""),
            entrypoint |-> Opt("str", ""), language |-> Opt("str", ""),
            dependencies |-> Opt("list_str", <<>>),
            tags |-> Opt("list_str", <<>>)]
      [] T = "SearchMatch" ->
           [code_block |-> Opt("opt_CodeBlock", PyNone),
            combined_score |-> Opt("float", 0),
            vector_score |-> Opt("float", 0),
            verdict_score |-> Opt("float", 0),
            thumbs_up |-> Opt("int", 0), thumbs_down |-> Opt("int", 0),
            filename |-> Opt("str", ""), language |-> Opt("str", ""),
            entrypoint |-> Opt("str", ""),
            dependencies |-> Opt("list_str", <<>>)]
      [] T = "SearchResponse" ->
           [matches |-> Opt("list_SearchMatch", <<>>),
            total_found |-> Opt("int", 0),
            cache_hit |-> Opt("bool", FALSE),
            search_namespaces |-> Opt("list_str", <<>>)]
      [] T = "UploadResponse" ->
           [success |-> Opt("bool", FALSE),
            code_block_ids |-> Opt("list_str", <<>>),
            message |-> Opt("str", "")]
      [] T = "VoteResponse" ->
           [success |-> Opt("bool", FALSE), message |-> Opt("str", "")]
      [] T = "PatternEntry" ->
           [code_block |-> Opt("opt_CodeBlock", PyNone),
            thumbs_up |-> Opt("int", 0), thumbs_down |-> Opt("int", 0),
            combined_score |-> Opt("float", 0)]
      [] T = "PatternsResponse" ->
           [patterns |-> Opt("list_PatternEntry", <<>>)]
      [] T = "FewShotExample" ->
           [task |-> Opt("str", ""), code |-> Opt("str", "")]
      [] T = "FewShotResponse" ->
           [examples |-> Opt("list_FewShotExample", <<>>)]

\* model_config = {"extra": "allow"}: the models that keep undeclared keys.
\* Every other model ignores them (pydantic's default).
ExtraAllowed(T) ==
    T \in {"PatternEntry", "PatternsResponse", "FewShotExample", "FewShotResponse"}

ModelNames ==
    {"SearchRequest", "UploadFile", "UploadRequest", "VoteRequest",
     "PatternsRequest", "FewShotRequest", "CodeBlock", "SearchMatch",
     "SearchResponse", "UploadResponse", "VoteResponse", "PatternEntry",
     "PatternsResponse", "FewShotExample", "FewShotResponse"}

\* pydantic's validation of one value against `int` (the models are declared
\* without strict mode): an integer, a boolean, a float without fraction, or a
\* decimal string.
ValidateInt(w) ==
    CASE w.k = "int" -> Ok(w.n)
      [] w.k = "bool" -> Ok(IF w.b THEN 1 ELSE 0)
      [] w.k = "float" -> IF w.n % 1000 = 0 THEN Ok(w.n \div 1000) ELSE Err
      [] w.k = "str" -> IF w.s \in DOMAIN IntOfStr THEN Ok(IntOfStr[w.s]) ELSE Err
      [] OTHER -> Err

\* ... against `float` (in thousandths).
ValidateFloat(w) ==
    CASE w.k = "float" -> Ok(w.n)
      [] w.k = "int" -> Ok(w.n * 1000)
      [] w.k = "bool" -> Ok(IF w.b THEN 1000 ELSE 0)
      [] w.k = "str" ->
           IF w.s \in DOMAIN IntOfStr THEN Ok(IntOfStr[w.s] * 1000) ELSE Err
      [] OTHER -> Err

\* ... against `bool`.
ValidateBool(w) ==
    CASE w.k = "bool" -> Ok(w.b)
      [] w.k = "int" -> IF w.n \in {0, 1} THEN Ok(w.n = 1) ELSE Err
      [] w.k = "float" -> IF w.n \in {0, 1000} THEN Ok(w.n = 1000) ELSE Err
      [] w.k = "str" ->
           IF w.s \in TrueStrings THEN Ok(TRUE)
           ELSE IF w.s \in FalseStrings THEN Ok(FALSE) ELSE Err
      [] OTHER -> Err

\* ... against `str`: only a string is one.
ValidateStr(w) == IF w.k = "str" THEN Ok(w.s) ELSE Err

RECURSIVE ValidateType(_, _), ValidateModel(_, _)

\* A list field: every item validated against the item type, order kept.
ValidateList(itemType, w) ==
    IF w.k # "list" THEN Err
    ELSE LET res == [i \in DOMAIN w.items |-> ValidateType(itemType, w.items[i])]
         IN IF \A i \in DOMAIN res : res[i].ok
            THEN Ok([i \in DOMAIN res |-> res[i].v]) ELSE Err

ValidateType(ty, w) ==
    CASE ty = "int" -> ValidateInt(w)
      [] ty = "float" -> ValidateFloat(w)
      [] ty = "bool" -> ValidateBool(w)
      [] ty = "str" -> ValidateStr(w)
      [] ty = "list_str" -> ValidateList("str", w)
      [] ty = "opt_CodeBlock" ->
           IF w.k = "null" THEN Ok(PyNone) ELSE ValidateModel("CodeBlock", w)
      [] ty = "list_SearchMatch" -> ValidateList("SearchMatch", w)
      [] ty = "list_PatternEntry" -> ValidateList("PatternEntry", w)
      [] ty = "list_FewShotExample" -> ValidateList("FewShotExample", w)
      [] ty \in ModelNames -> ValidateModel(ty, w)

\* BaseModel validation (the constructor of a model and model_validate): the
\* input is a mapping; a declared key that is present is validated against its
\* type, one that is absent takes its default or, if required, fails the
\* validation; an undeclared key is ignored, or kept under "extra" by the
\* models that allow extras.
ValidateModel(T, w) ==
    IF w.k = "model" THEN (IF w.m.model = T THEN Ok(w.m) ELSE Err)
    ELSE IF w.k # "obj" THEN Err
    ELSE LET sch == Schema(T)
             res == [fld \in DOMAIN sch |->
                       IF fld \in DOMAIN w.f
                       THEN ValidateType(sch[fld].type, w.f[fld])
                       ELSE IF sch[fld].required THEN Err
                       ELSE Ok(sch[fld].default)]
             declared == [fld \in DOMAIN sch |-> res[fld].v]
             extras == {key \in DOMAIN w.f : key \notin DOMAIN sch}
         IN IF \E fld \in DOMAIN sch : ~res[fld].ok THEN Err
            ELSE IF ExtraAllowed(T)
            THEN Ok([model |-> T, fields |-> declared,
                     extra |-> [key \in extras |-> w.f[key]]])
            ELSE Ok([model |-> T, fields |-> declared])

\* model_dump(): the declared fields (and kept extras) as a plain mapping,
\* nested models dumped in turn.
RECURSIVE ModelDump(_)
DumpValue(ty, v) ==
    CASE ty \in {"int", "float", "bool", "str", "list_str"} -> v
      [] ty = "opt_CodeBlock" -> IF v = PyNone THEN PyNone ELSE ModelDump(v)
      [] ty \in {"list_SearchMatch", "list_PatternEntry", "list_FewShotExample"} ->
           [i \in DOMAIN v |-> ModelDump(v[i])]
      [] ty \in ModelNames -> ModelDump(v)

ModelDump(m) ==
    LET sch == Schema(m.model)
        declared == [fld \in DOMAIN sch |-> DumpValue(sch[fld].type, m.fields[fld])]
    IN IF ExtraAllowed(m.model) THEN declared @@ m.extra ELSE declared

\* --------------------------------------------------- transport layer
DEFAULT_BASE_URL == "https://api.raysurfer.com"
\* raysurfer_cli.__version__, as the tests of the version command read it.
Version == "0.1.0"
USER_AGENT == "raysurfer-code-caching-cli/" \o Version
\* DEFAULT_TIMEOUT = 30.0, in seconds.
DEFAULT_TIMEOUT == 30

API_KEY_VAR == "RAYSURFER_API_KEY"

\* The process environments of the model: the variable unset, set to the empty
\* string, or set to a key.
NoEnviron == [name \in {} |-> ""]
Environs == {NoEnviron, [name \in {API_KEY_VAR} |-> ""],
             [name \in {API_KEY_VAR} |-> "sk-env"]}

\* os.environ.get(name, default)
EnvironGet(env, name, default) ==
    IF name \in DOMAIN env THEN env[name] ELSE default

\* _get_api_key() raising only when the variable is absent, an empty value
\* taken for a key.
GetApiKeyUnsetOnly(env) ==
    IF API_KEY_VAR \notin DOMAIN env
    THEN [raised |-> TRUE, exc |-> "RuntimeError",
          message |-> <<API_KEY_VAR, "environment variable is not set.">>]
    ELSE [raised |-> FALSE, key |-> env[API_KEY_VAR]]

\* _get_api_key(): the key of the environment, or a RuntimeError whose message
\* names the variable.
GetApiKey(env) ==
    LET key == EnvironGet(env, API_KEY_VAR, "")
    IN IF key = ""
       THEN [raised |-> TRUE, exc |-> "RuntimeError",
             message |-> <<API_KEY_VAR, "environment variable is not set.">>]
       ELSE [raised |-> FALSE, key |-> key]

\* _headers(api_key)
Headers(api_key) ==
    ("Authorization" :> ("Bearer " \o api_key))
    @@ ("Content-Type" :> "application/json")
    @@ ("User-Agent" :> USER_AGENT)

\* base_url.rstrip("/") on the base URLs of the model.
BaseUrls == {DEFAULT_BASE_URL, "http://localhost:8000/"}
RstripSlash(url) ==
    IF url = "http://localhost:8000/" THEN "http://localhost:8000" ELSE url

NoClient == [state |-> "none"]

\* RaysurferClient.__init__ / AsyncRaysurferClient.__init__: the key is resolved
\* first (`api_key or _get_api_key()`), and only then is the httpx client
\* created. `steps` lists what the constructor did, in order.
ClientInit(variant, api_key, base_url, timeout, env) ==
    LET explicit == api_key.k = "str" /\ api_key.s # ""
        got == IF explicit THEN [raised |-> FALSE, key |-> api_key.s]
               ELSE GetApiKey(env)
    IN IF got.raised
       THEN [raised |-> TRUE, exc |-> got.exc, message |-> got.message,
             steps |-> <<"resolve_key">>, client |-> NoClient]
       ELSE [raised |-> FALSE,
             steps |-> <<"resolve_key", "create_http_client">>,
             client |-> [state |-> "open", variant |-> variant,
                         api_key |-> got.key,
                         base_url |-> RstripSlash(base_url),
                         headers |-> Headers(got.key),
                         timeout |-> timeout,
                         close_calls |-> 0]]

\* close(): closes the underlying httpx client.
ClientClose(c) == [c EXCEPT !.state = "closed", !.close_calls = @ + 1]

\* An __exit__ that forgets to close.
ClientExitNoClose(c) == c

\* __exit__ / __aexit__: close, and let a pending exception propagate.
ClientExit(c) == ClientClose(c)

\* The remote operations each client class defines.
SyncOps == {"search", "upload", "vote", "patterns", "few_shot_examples"}
AsyncOps == {"search", "upload", "vote", "patterns", "few_shot_examples"}

\* The path each method of RaysurferClient posts to.
SyncPath(op) ==
    CASE op = "search" -> "/api/retrieve/search"
      [] op = "upload" -> "/api/store/execution-result"
      [] op = "vote" -> "/api/store/cache-usage"
      [] op = "patterns" -> "/api/retrieve/task-patterns"
      [] op = "few_shot_examples" -> "/api/retrieve/few-shot-examples"

\* The response model each method of RaysurferClient validates against.
SyncResponseModel(op) ==
    CASE op = "search" -> "SearchResponse"
      [] op = "upload" -> "UploadResponse"
      [] op = "vote" -> "VoteResponse"
      [] op = "patterns" -> "PatternsResponse"
      [] op = "few_shot_examples" -> "FewShotResponse"

\* The asynchronous table with vote's path copied from upload.
AsyncPathCopied(op) ==
    IF op = "vote" THEN "/api/store/execution-result" ELSE SyncPath(op)

\* The same two tables of AsyncRaysurferClient.
AsyncPath(op) ==
    CASE op = "search" -> "/api/retrieve/search"
      [] op = "upload" -> "/api/store/execution-result"
      [] op = "vote" -> "/api/store/cache-usage"
      [] op = "patterns" -> "/api/retrieve/task-patterns"
      [] op = "few_shot_examples" -> "/api/retrieve/few-shot-examples"

AsyncResponseModel(op) ==
    CASE op = "search" -> "SearchResponse"
      [] op = "upload" -> "UploadResponse"
      [] op = "vote" -> "VoteResponse"
      [] op = "patterns" -> "PatternsResponse"
      [] op = "few_shot_examples" -> "FewShotResponse"

\* self._client.post(path, json=request.model_dump()): the one HTTP request of
\* an operation, with the headers and base URL the httpx client was built with.
Post(c, path, request) ==
    [method |-> "POST", url |-> c.base_url \o path, headers |-> c.headers,
     timeout |-> c.timeout, json |-> ModelDump(request)]

\* An endpoint that leaves a header naming its operation on the shared client.
AfterCallTagsClient(c, op, request) ==
    [c EXCEPT !.headers = ("X-Last-Operation" :> op) @@ @]

\* The client object once an endpoint has been entered: the endpoints read
\* self._client and assign to no attribute of self or of the httpx client.
AfterCall(c, op, request) == c

SyncSend(c, op, request) == Post(c, SyncPath(op), request)
AsyncSend(c, op, request) == Post(c, AsyncPath(op), request)

\* What comes back from the network: a response with a status and a body, or
\* no response at all (connection failure, timeout).
Raise(exc, status) == [raised |-> TRUE, exc |-> exc, status |-> status]
Return(value) == [raised |-> FALSE, value |-> value]

\* raise_for_status() raising for client and server errors only.
RaiseForErrorStatus(status) == status >= 400

\* resp.raise_for_status(): httpx raises HTTPStatusError, which carries the
\* response, for every status outside 200..299.
RaiseForStatus(status) == ~(200 <= status /\ status <= 299)

\* The rest of an operation once the POST has come back: raise_for_status(),
\* resp.json(), <Response>.model_validate(...).
Finish(model, reply) ==
    IF reply.net # "ok" THEN Raise(reply.net, 0)
    ELSE IF RaiseForStatus(reply.status) THEN Raise("HTTPStatusError", reply.status)
    ELSE IF reply.body = NotJson THEN Raise("JSONDecodeError", reply.status)
    ELSE LET parsed == ValidateModel(model, reply.body)
         IN IF parsed.ok THEN Return(parsed.v)
            ELSE Raise("ValidationError", reply.status)

SyncFinish(op, reply) == Finish(SyncResponseModel(op), reply)
AsyncFinish(op, reply) == Finish(AsyncResponseModel(op), reply)

\* The classes an exception of the model is an instance of.
ExcClasses(exc) ==
    CASE exc = "HTTPStatusError" -> {"HTTPStatusError", "HTTPError", "Exception"}
      [] exc = "ConnectError" -> {"ConnectError", "TransportError", "HTTPError", "Exception"}
      [] exc = "TimeoutException" ->
           {"TimeoutException", "TransportError", "HTTPError", "Exception"}
      [] exc = "JSONDecodeError" -> {"JSONDecodeError", "ValueError", "Exception"}
      [] exc = "ValidationError" -> {"ValidationError", "ValueError", "Exception"}
      [] exc = "RuntimeError" -> {"RuntimeError", "Exception"}
      [] exc \in {"OSError", "UnicodeDecodeError"} -> {exc, "Exception"}
      [] exc = "Exit" -> {"Exit", "RuntimeError", "Exception"}

\* ----------------------------------------------------- command layer
Commands == {"search", "upload", "vote", "patterns", "examples", "version"}
RemoteCommands == Commands \ {"version"}

\* The client method, the request model and the label of the failure message
\* of each remote command.
CommandOp(cmd) == IF cmd = "examples" THEN "few_shot_examples" ELSE cmd

RequestModel(cmd) ==
    CASE cmd = "search" -> "SearchRequest"
      [] cmd = "upload" -> "UploadRequest"
      [] cmd = "vote" -> "VoteRequest"
      [] cmd = "patterns" -> "PatternsRequest"
      [] cmd = "examples" -> "FewShotRequest"

FailLabel(cmd) ==
    CASE cmd = "search" -> "Search failed:"
      [] cmd = "upload" -> "Upload failed:"
      [] cmd = "vote" -> "Vote failed:"
      [] cmd = "patterns" -> "Patterns lookup failed:"
      [] cmd = "examples" -> "Examples lookup failed:"

\* console = Console(); err_console = Console(stderr=True)
Console == "stdout"
\* err_console built without stderr=True.
ErrConsoleOnStdout == "stdout"
ErrConsole == "stderr"

Emit(o, console, item) == [o EXCEPT ![console] = Append(@, item)]
EmitAll(o, console, items) == [o EXCEPT ![console] = @ \o items]

\* _fatal(message): one error line on err_console; typer.Exit(code=1) follows.
Fatal(o, message) ==
    Emit(o, ErrConsole, [kind |-> "error", text |-> <<"Error:">> \o message])

\* An exception no handler of the command catches leaves app() and ends the
\* process with a traceback on the error stream and exit code 1.
Uncaught(o, exc) == Emit(o, "stderr", [kind |-> "traceback", exc |-> exc])

\* The local files of the model. A file that exists may still fail
\* read_text(encoding="utf-8"): a directory, no permission, bytes that are not
\* UTF-8.
Paths == {"a.py", "b.py"}
FileStates == {"readable", "unreadable", "missing"}
ReadText(path) == "text of " \o path

\* upload's loop over --file: the first file that does not exist ends it
\* through _fatal, the first that cannot be read through the exception of
\* read_text, whichever comes first in the order given.
RECURSIVE GatherLoop(_, _, _, _)
GatherLoop(files, filesys, i, acc) ==
    IF i > Len(files) THEN [status |-> "ok", files_written |-> acc]
    ELSE IF filesys[files[i]] = "missing"
    THEN [status |-> "fatal", message |-> <<"File not found:", files[i]>>]
    ELSE IF filesys[files[i]] = "unreadable"
    THEN [status |-> "raise", exc |-> "OSError"]
    ELSE GatherLoop(files, filesys, i + 1,
           Append(acc, ValidateModel("UploadFile",
                         DObj([path |-> DStr(files[i]),
                               content |-> DStr(ReadText(files[i]))])).v))

\* The loop skipping a file that does not exist instead of ending the command.
GatherFilesSkipMissing(files, filesys) ==
    GatherLoop(SelectSeq(files, LAMBDA f : filesys[f] # "missing"), filesys, 1, <<>>)

GatherFiles(files, filesys) == GatherLoop(files, filesys, 1, <<>>)

\* The keyword arguments each command hands to its request model.
RequestKwargs(a, written) ==
    CASE a.cmd = "search" ->
           DObj([task |-> DStr(a.task), top_k |-> DInt(a.top_k),
                 min_verdict_score |-> DFloat(a.min_score),
                 prefer_complete |-> DBool(a.prefer_complete)])
      [] a.cmd = "upload" ->
           DObj([task |-> DStr(a.task),
                 files_written |-> DList([i \in DOMAIN written |-> DModel(written[i])]),
                 succeeded |-> DBool(a.succeeded),
                 auto_vote |-> DBool(~a.no_auto_vote)])
      [] a.cmd = "vote" ->
           DObj([code_block_id |-> DStr(a.code_block_id),
                 succeeded |-> DBool(a.up), task |-> DStr(a.vote_task),
                 code_block_name |-> DStr(a.name),
                 code_block_description |-> DStr(a.description)])
      [] a.cmd = "patterns" ->
           DObj([task |-> DStr(a.task), code_block_id |-> DStr(a.code_block_id),
                 min_thumbs_up |-> DInt(a.min_thumbs_up), top_k |-> DInt(a.top_k)])
      [] a.cmd = "examples" ->
           DObj([task |-> DStr(a.task), k |-> DInt(a.k)])

\* f"{x:.2f}" of a score carried in thousandths: the score in hundredths.
\* (The scores of the model are not at a rounding tie.)
Fmt2(th) == (th + 5) \div 10

IsNone(v) == v = PyNone

\* One row of search's table:
\*   table.add_row(str(idx), label, lang, score, votes)
SearchRow(idx, match) ==
    LET m == match.fields
        cb == m.code_block
        name == IF ~IsNone(cb) /\ cb.fields.name # "" THEN cb.fields.name
                ELSE IF m.filename # "" THEN m.filename ELSE "unnamed"
        block_id == IF ~IsNone(cb) THEN cb.fields.id ELSE ""
        lang == IF ~IsNone(cb) /\ cb.fields.language # "" THEN cb.fields.language
                ELSE m.language
    IN [idx |-> idx, name |-> name, block_id |-> block_id, lang |-> lang,
        score |-> Fmt2(m.combined_score),
        votes |-> <<m.thumbs_up, m.thumbs_down>>]

\* The rows built from the matches in reverse order.
SearchRowsReversed(matches) ==
    [i \in 1..Len(matches) |-> SearchRow(i, matches[Len(matches) + 1 - i])]

\* for idx, match in enumerate(response.matches, 1): one row each, in order.
SearchRows(matches) == [i \in 1..Len(matches) |-> SearchRow(i, matches[i])]

\* The source panels of --show-code: one per match that has source text.
RECURSIVE SearchPanels(_, _)
SearchPanels(matches, i) ==
    IF i > Len(matches) THEN <<>>
    ELSE LET m == matches[i].fields
             cb == m.code_block
             source == IF ~IsNone(cb) THEN cb.fields.source ELSE ""
             lang == IF ~IsNone(cb) /\ cb.fields.language # "" THEN cb.fields.language
                     ELSE IF m.language # "" THEN m.language ELSE "text"
             named == IF ~IsNone(cb) THEN cb.fields.name ELSE ""
             title == IF named # "" THEN <<named>>
                      ELSE IF m.filename # "" THEN <<m.filename>>
                      ELSE <<"Match #">>
         IN (IF source = "" THEN <<>>
             ELSE <<[kind |-> "panel", idx |-> i, source |-> source,
                     lang |-> lang, title |-> title]>>)
            \o SearchPanels(matches, i + 1)

JsonItem(response) == [kind |-> "json", value |-> ModelDump(response)]
TextItem(text) == [kind |-> "text", text |-> text]

\* What search writes to the console once it has a response.
RenderSearch(a, response) ==
    LET r == response.fields
        summary == [kind |-> "summary", found |-> r.total_found,
                    cache_hit |-> r.cache_hit,
                    namespaces |-> r.search_namespaces]
    IN IF a.json_output THEN <<JsonItem(response)>>
       ELSE IF Len(r.matches) = 0
       THEN <<summary, TextItem(<<"No matches.">>)>>
       ELSE <<summary, [kind |-> "table", rows |-> SearchRows(r.matches)]>>
            \o (IF a.show_code
                THEN <<[kind |-> "blank"]>> \o SearchPanels(r.matches, 1)
                ELSE <<>>)

RenderUpload(a, response) ==
    LET r == response.fields
    IN IF a.json_output THEN <<JsonItem(response)>>
       ELSE IF r.success
       THEN <<TextItem(<<"Uploaded successfully.", r.message>>)>>
            \o (IF Len(r.code_block_ids) > 0
                THEN <<TextItem(<<"Code block IDs:">> \o r.code_block_ids)>>
                ELSE <<>>)
       ELSE <<TextItem(<<"Upload failed.", r.message>>)>>

RenderVote(a, response) ==
    LET r == response.fields
        icon == IF a.up THEN "thumbs up" ELSE "thumbs down"
    IN IF a.json_output THEN <<JsonItem(response)>>
       ELSE IF r.success
       THEN <<TextItem(<<"Voted", icon, "on", a.code_block_id, r.message>>)>>
       ELSE <<TextItem(<<"Vote failed.", r.message>>)>>

PatternRow(idx, pat) ==
    LET cb == pat.fields.code_block
    IN [idx |-> idx,
        name |-> IF ~IsNone(cb) /\ cb.fields.name # "" THEN cb.fields.name
                 ELSE "unnamed",
        block_id |-> IF ~IsNone(cb) THEN cb.fields.id ELSE "",
        score |-> Fmt2(pat.fields.combined_score),
        votes |-> <<pat.fields.thumbs_up, pat.fields.thumbs_down>>]

RenderPatterns(a, response) ==
    LET ps == response.fields.patterns
    IN IF a.json_output THEN <<JsonItem(response)>>
       ELSE IF Len(ps) = 0 THEN <<TextItem(<<"No patterns found.">>)>>
       ELSE <<[kind |-> "table",
               rows |-> [i \in 1..Len(ps) |-> PatternRow(i, ps[i])]]>>

RenderExamples(a, response) ==
    LET es == response.fields.examples
    IN IF a.json_output THEN <<JsonItem(response)>>
       ELSE IF Len(es) = 0 THEN <<TextItem(<<"No examples found.">>)>>
       ELSE [i \in 1..Len(es) |->
               [kind |-> "panel", idx |-> i,
                source |-> IF es[i].fields.code # "" THEN es[i].fields.code
                           ELSE "(no code)",
                lang |-> "python",
                title |-> <<"Example", IF es[i].fields.task # ""
                                       THEN es[i].fields.task ELSE "untitled">>]]

Render(a, response) ==
    CASE a.cmd = "search" -> RenderSearch(a, response)
      [] a.cmd = "upload" -> RenderUpload(a, response)
      [] a.cmd = "vote" -> RenderVote(a, response)
      [] a.cmd = "patterns" -> RenderPatterns(a, response)
      [] a.cmd = "examples" -> RenderExamples(a, response)

\* version without the json_output branch.
RenderVersionTextOnly(a) ==
    <<TextItem(<<"raysurfer-code-caching-cli", Version>>)>>
\* version: the fixed identifier, as JSON or as text.
RenderVersion(a) ==
    IF a.json_output
    THEN <<[kind |-> "json", value |-> [version |-> Version]]>>
    ELSE <<TextItem(<<"raysurfer-code-caching-cli", Version>>)>>

\* ------------------------------------------------------------ inputs
\* All sequences over S of length lo..hi.
SeqsOf(S, lo, hi) == UNION {[1..n -> S] : n \in lo..hi}

\* What the server may put in a list of matches.
WireCodeBlock ==
    DObj([id |-> DStr("cb1"), name |-> DStr("alpha"),
          language |-> DStr("python"), source |-> DStr("print(1)")])
WireMatches ==
    { DObj([code_block |-> WireCodeBlock, combined_score |-> DFloat(871),
            thumbs_up |-> DInt(3), thumbs_down |-> DInt(1),
            filename |-> DStr("alpha.py"), language |-> DStr("py")]),
      DObj([code_block |-> DNull, combined_score |-> DInt(1),
            filename |-> DStr("beta.js"), language |-> DStr("javascript")]),
      DObj([code_block |-> DObj([name |-> DStr(""), source |-> DStr("x = 2")]),
            thumbs_up |-> DStr("2")]),
      DObj([thumbs_up |-> DStr("lots"), filename |-> DStr("gamma.rb")]) }

\* Bodies no response model accepts or every one does.
CommonBodies == {NotJson, DNull, DList(<<>>), DObj([x \in {} |-> DNull])}

SearchBodies ==
    { DObj([matches |-> DList(ms), total_found |-> tf,
            cache_hit |-> DBool(TRUE),
            search_namespaces |-> DList(<<DStr("team-a")>>)]) :
        ms \in SeqsOf(WireMatches, 0, MaxMatches),
        tf \in {DInt(7), DStr("7"), DStr("many")} }
    \cup { DObj([matches |-> DList(<<>>), cache_hit |-> ch]) :
             ch \in {DStr("yes"), DInt(2)} }

UploadBodies ==
    { DObj([success |-> ok, code_block_ids |-> ids, message |-> DStr("stored")]) :
        ok \in {DBool(TRUE), DBool(FALSE), DStr("true"), DStr("maybe")},
        ids \in {DList(<<>>), DList(<<DStr("cb9")>>), DStr("cb9")} }

VoteBodies ==
    { DObj([success |-> ok, message |-> msg]) :
        ok \in {DBool(TRUE), DBool(FALSE), DInt(1), DStr("maybe")},
        msg \in {DStr("recorded"), DInt(5)} }
    \cup {DObj([message |-> DStr("recorded")])}

WirePatterns ==
    { DObj([code_block |-> WireCodeBlock, thumbs_up |-> DInt(4),
            combined_score |-> DFloat(500), rank |-> DInt(1)]),
      DObj([thumbs_down |-> DList(<<>>)]) }

PatternsBodies ==
    { DObj([patterns |-> DList(ps), server_time |-> DStr("now")]) :
        ps \in SeqsOf(WirePatterns, 0, MaxMatches) }

WireExamples ==
    { DObj([task |-> DStr("fix flaky test"), code |-> DStr("retry()")]),
      DObj([code |-> DInt(7)]) }

FewShotBodies ==
    { DObj([examples |-> DList(es)]) : es \in SeqsOf(WireExamples, 0, MaxMatches) }

Bodies(op) ==
    CommonBodies \cup
    (CASE op = "search" -> SearchBodies
       [] op = "upload" -> UploadBodies
       [] op = "vote" -> VoteBodies
       [] op = "patterns" -> PatternsBodies
       [] op = "few_shot_examples" -> FewShotBodies)

Statuses == {200, 201, 302, 404, 500}

\* Everything the network can answer to one POST of `op`.
Replies(op) ==
    { [net |-> "ok", status |-> st, body |-> b] :
        st \in Statuses, b \in Bodies(op) }
    \cup { [net |-> e, status |-> 0, body |-> NotJson] :
             e \in {"ConnectError", "TimeoutException"} }

\* The command lines of the model.
Argv(cmd) ==
    [cmd |-> cmd, task |-> "fix flaky test", json_output |-> FALSE,
     top_k |-> 5, min_score |-> 0, prefer_complete |-> TRUE,
     show_code |-> FALSE, files |-> <<>>, succeeded |-> TRUE,
     no_auto_vote |-> FALSE, code_block_id |-> "", up |-> TRUE,
     vote_task |-> "", name |-> "", description |-> "",
     min_thumbs_up |-> 1, k |-> 3]

CommandLines ==
    { [Argv("search") EXCEPT !.json_output = j, !.show_code = c] :
        j \in BOOLEAN, c \in BOOLEAN }
    \cup { [Argv("upload") EXCEPT !.json_output = j, !.files = fl,
                                  !.succeeded = ok, !.no_auto_vote = nv] :
             j \in BOOLEAN, fl \in SeqsOf(Paths, 1, MaxFiles),
             ok \in BOOLEAN, nv \in BOOLEAN }
    \cup { [Argv("vote") EXCEPT !.json_output = j, !.up = u,
                                !.code_block_id = "abc123"] :
             j \in BOOLEAN, u \in BOOLEAN }
    \cup { [Argv(cmd) EXCEPT !.json_output = j] :
             cmd \in {"patterns", "examples", "version"}, j \in BOOLEAN }

NoArgv == Argv("none")
AllReadable == [p \in Paths |-> "readable"]
NoRequest == [model |-> "none"]
NoResponse == [model |-> "none"]
NoReply == [net |-> "none"]

\* What an embedding program hands to the client: the request models built
\* with and without their optional fields, and a few answers per operation.
OpRequestModel(op) ==
    CASE op = "search" -> "SearchRequest"
      [] op = "upload" -> "UploadRequest"
      [] op = "vote" -> "VoteRequest"
      [] op = "patterns" -> "PatternsRequest"
      [] op = "few_shot_examples" -> "FewShotRequest"

ApiKwargs(op) ==
    CASE op = "search" -> {DObj([task |-> DStr("t")])}
      [] op = "upload" ->
           {DObj([task |-> DStr("t"),
                  file_written |-> DObj([path |-> DStr("a.py"),
                                         content |-> DStr(ReadText("a.py"))])])}
      [] op = "vote" ->
           {DObj([code_block_id |-> DStr("abc123"), succeeded |-> DBool(FALSE),
                  task |-> DStr("t")])}
      [] op = "patterns" -> {DObj([task |-> DStr("t")])}
      [] op = "few_shot_examples" ->
           {DObj([task |-> DStr("t")]), DObj([task |-> DStr("t"), k |-> DInt(1)])}

ApiBodies(op) ==
    CASE op = "search" ->
           {b \in SearchBodies : /\ b.f.matches.items = <<>>
                                 /\ "total_found" \in DOMAIN b.f
                                 /\ b.f.total_found = DStr("7")}
      [] op = "upload" ->
           {b \in UploadBodies : /\ b.f.code_block_ids = DList(<<DStr("cb9")>>)
                                 /\ b.f.success = DStr("maybe")}
      [] op = "vote" ->
           {b \in VoteBodies : /\ "success" \in DOMAIN b.f
                               /\ b.f.success = DBool(FALSE)
                               /\ b.f.message = DStr("recorded")}
      [] op = "patterns" ->
           {b \in PatternsBodies : /\ Len(b.f.patterns.items) = 1
                                   /\ "rank" \in DOMAIN b.f.patterns.items[1].f}
      [] op = "few_shot_examples" ->
           {b \in FewShotBodies : /\ Len(b.f.examples.items) = 1
                                  /\ "task" \in DOMAIN b.f.examples.items[1].f}

ApiReplies(op) ==
    { [net |-> "ok", status |-> st, body |-> b] :
        st \in {200, 500}, b \in ApiBodies(op) }
    \cup {[net |-> "ok", status |-> 200, body |-> NotJson]}

ApiKeys == {DNull, DStr(""), DStr("sk-arg")}

\* ------------------------------------------------------------- state
VARIABLES
    entry,          \* "cli": a command-line invocation; "api": an embedding program
    environ,        \* the process environment
    fs,             \* the state of each local path
    argv,           \* the parsed command line
    pc,             \* where the command (or the embedding program) stands
    files_written,  \* upload: the UploadFile records gathered so far
    ctor,           \* what the client's constructor did
    client,         \* the client object
    request,        \* the request model the command built
    network,        \* every HTTP request sent, in order
    calls,          \* every client operation started, with its outcome
    response,       \* the parsed response the command renders
    out,            \* what was written to stdout and to stderr
    exit_code       \* the process's exit code, -1 while it runs

vars == <<entry, environ, fs, argv, pc, files_written, ctor, client, request,
          network, calls, response, out, exit_code>>

NoCtor == [raised |-> FALSE, steps |-> <<>>, client |-> NoClient, arg |-> DNull]
NoOutcome == [raised |-> FALSE, value |-> NoResponse]
Running == -1

StartPc(cmd) ==
    CASE cmd = "upload" -> "gather"
      [] cmd = "version" -> "version"
      [] OTHER -> "acquire"

Init ==
    /\ entry \in {"cli", "api"}
    /\ environ \in Environs
    /\ IF entry = "cli"
       THEN /\ argv \in CommandLines
            /\ fs \in (IF argv.cmd = "upload" THEN [Paths -> FileStates]
                       ELSE {AllReadable})
            /\ pc = StartPc(argv.cmd)
       ELSE /\ argv = NoArgv
            /\ fs = AllReadable
            /\ pc = "api_init"
    /\ files_written = <<>>
    /\ ctor = NoCtor
    /\ client = NoClient
    /\ request = NoRequest
    /\ network = <<>>
    /\ calls = <<>>
    /\ response = NoResponse
    /\ out = [stdout |-> <<>>, stderr |-> <<>>]
    /\ exit_code = Running

\* The send and the completion of an operation, by the client's class.
Send(c, op, req) ==
    IF c.variant = "sync" THEN SyncSend(c, op, req) ELSE AsyncSend(c, op, req)
FinishOp(c, op, reply) ==
    IF c.variant = "sync" THEN SyncFinish(op, reply) ELSE AsyncFinish(op, reply)

Call(c, op, req) ==
    [variant |-> c.variant, op |-> op, request |-> req, state |-> "inflight",
     client_state |-> c.state, reply |-> NoReply, outcome |-> NoOutcome]

\* ------------------------------------------------------ cli: actions
\* upload, lines 156-163: the loop over the files given with --file.
CliGather ==
    /\ entry = "cli" /\ pc = "gather"
    /\ LET g == GatherFiles(argv.files, fs)
       IN CASE g.status = "ok" ->
                 /\ files_written' = g.files_written
                 /\ pc' = "acquire"
                 /\ UNCHANGED <<out, exit_code>>
            [] g.status = "fatal" ->
                 /\ out' = Fatal(out, g.message)
                 /\ exit_code' = 1
                 /\ pc' = "done"
                 /\ UNCHANGED files_written
            [] g.status = "raise" ->
                 /\ out' = Uncaught(out, g.exc)
                 /\ exit_code' = 1
                 /\ pc' = "done"
                 /\ UNCHANGED files_written
    /\ UNCHANGED <<entry, environ, fs, argv, ctor, client, request, network,
                   calls, response>>

\* _get_client(): RaysurferClient(), a RuntimeError turned into _fatal.
CliGetClient ==
    /\ entry = "cli" /\ pc = "acquire"
    /\ LET r == ClientInit("sync", DNull, DEFAULT_BASE_URL, DEFAULT_TIMEOUT, environ)
       IN /\ ctor' = [arg |-> DNull] @@ r
          /\ IF r.raised
             THEN /\ out' = IF "RuntimeError" \in ExcClasses(r.exc)
                            THEN Fatal(out, r.message) ELSE Uncaught(out, r.exc)
                  /\ exit_code' = 1
                  /\ pc' = "done"
                  /\ UNCHANGED client
             ELSE /\ client' = r.client
                  /\ pc' = "build"
                  /\ UNCHANGED <<out, exit_code>>
    /\ UNCHANGED <<entry, environ, fs, argv, files_written, request, network,
                   calls, response>>

\* The request model built inside the `with` block, before the try: a
\* validation error of the constructor leaves the block through __exit__ and
\* is caught by nothing.
CliBuild ==
    /\ entry = "cli" /\ pc = "build"
    /\ LET built == ValidateModel(RequestModel(argv.cmd),
                                  RequestKwargs(argv, files_written))
       IN IF built.ok
          THEN /\ request' = built.v
               /\ pc' = "call"
               /\ UNCHANGED <<client, out, exit_code>>
          ELSE /\ client' = ClientExit(client)
               /\ out' = Uncaught(out, "ValidationError")
               /\ exit_code' = 1
               /\ pc' = "done"
               /\ UNCHANGED request
    /\ UNCHANGED <<entry, environ, fs, argv, files_written, ctor, network,
                   calls, response>>

\* client.<op>(request), up to the POST.
CliSend ==
    /\ entry = "cli" /\ pc = "call"
    /\ network' = Append(network, Send(client, CommandOp(argv.cmd), request))
    /\ calls' = Append(calls, Call(client, CommandOp(argv.cmd), request))
    /\ pc' = "await"
    /\ UNCHANGED <<entry, environ, fs, argv, files_written, ctor, client,
                   request, response, out, exit_code>>

\* The POST comes back: the operation returns or raises; `except Exception`
\* turns what it raises into _fatal; the `with` block is left either way.
CliReceive ==
    /\ entry = "cli" /\ pc = "await"
    /\ \E reply \in Replies(CommandOp(argv.cmd)) :
         LET o == FinishOp(client, CommandOp(argv.cmd), reply)
         IN /\ calls' = [calls EXCEPT ![Len(calls)] =
                           [@ EXCEPT !.state = "done", !.reply = reply,
                                     !.outcome = o]]
            /\ client' = ClientExit(client)
            /\ IF o.raised
               THEN /\ out' = IF "Exception" \in ExcClasses(o.exc)
                              THEN Fatal(out, <<FailLabel(argv.cmd), o.exc>>)
                              ELSE Uncaught(out, o.exc)
                    /\ exit_code' = 1
                    /\ pc' = "done"
                    /\ UNCHANGED response
               ELSE /\ response' = o.value
                    /\ pc' = "render"
                    /\ UNCHANGED <<out, exit_code>>
    /\ UNCHANGED <<entry, environ, fs, argv, files_written, ctor, request,
                   network>>

\* The rendering after the `with` block, and the normal return.
CliRender ==
    /\ entry = "cli" /\ pc = "render"
    /\ out' = EmitAll(out, Console, Render(argv, response))
    /\ exit_code' = 0
    /\ pc' = "done"
    /\ UNCHANGED <<entry, environ, fs, argv, files_written, ctor, client,
                   request, network, calls, response>>

\* version
CliVersion ==
    /\ entry = "cli" /\ pc = "version"
    /\ out' = EmitAll(out, Console, RenderVersion(argv))
    /\ exit_code' = 0
    /\ pc' = "done"
    /\ UNCHANGED <<entry, environ, fs, argv, files_written, ctor, client,
                   request, network, calls, response>>

\* ------------------------------------------------------ api: actions
\* An embedding program constructs a client of either class.
ApiConstruct ==
    /\ entry = "api" /\ pc = "api_init"
    /\ \E variant \in {"sync", "async"}, key \in ApiKeys, url \in BaseUrls :
         LET r == ClientInit(variant, key, url, DEFAULT_TIMEOUT, environ)
         IN /\ ctor' = [arg |-> key] @@ r
            /\ client' = r.client
            /\ pc' = IF r.raised THEN "done" ELSE "api_ready"
    /\ UNCHANGED <<entry, environ, fs, argv, files_written, request, network,
                   calls, response, out, exit_code>>

AllDone == \A i \in DOMAIN calls : calls[i].state = "done"

\* It starts an operation. The synchronous client blocks until the operation
\* is over; the asynchronous one may have several in flight.
ApiCall ==
    /\ entry = "api" /\ pc = "api_ready"
    /\ Len(calls) < MaxCalls
    /\ client.variant = "sync" => AllDone
    /\ \E op \in SyncOps \cup AsyncOps :
         \E kwargs \in ApiKwargs(op) :
           LET req == ValidateModel(OpRequestModel(op), kwargs).v
           IN /\ network' = Append(network, Send(client, op, req))
              /\ calls' = Append(calls, Call(client, op, req))
              /\ client' = AfterCall(client, op, req)
    /\ UNCHANGED <<entry, environ, fs, argv, pc, files_written, ctor,
                   request, response, out, exit_code>>

\* One of the operations in flight comes back.
ApiReply ==
    /\ entry = "api" /\ pc = "api_ready"
    /\ \E i \in DOMAIN calls :
         /\ calls[i].state = "inflight"
         /\ \E reply \in ApiReplies(calls[i].op) :
              calls' = [calls EXCEPT ![i] =
                          [@ EXCEPT !.state = "done", !.reply = reply,
                                    !.outcome = FinishOp(client, calls[i].op, reply)]]
    /\ UNCHANGED <<entry, environ, fs, argv, pc, files_written, ctor, client,
                   request, network, response, out, exit_code>>

\* It closes the client once nothing is in flight.
ApiClose ==
    /\ entry = "api" /\ pc = "api_ready"
    /\ AllDone
    /\ client' = ClientClose(client)
    /\ pc' = "done"
    /\ UNCHANGED <<entry, environ, fs, argv, files_written, ctor, request,
                   network, calls, response, out, exit_code>>

Next ==
    \/ CliGather
    \/ CliGetClient
    \/ CliBuild
    \/ CliSend
    \/ CliReceive
    \/ CliRender
    \/ CliVersion
    \/ ApiConstruct
    \/ ApiCall
    \/ ApiReply
    \/ ApiClose

Spec == Init /\ [][Next]_vars

\* ------------------------------------------------------------ claims
Done == pc = "done"
IsCommand(cmd) == entry = "cli" /\ argv.cmd = cmd
KeyInEnviron == EnvironGet(environ, API_KEY_VAR, "") # ""
FilesIn(states) == \A i \in DOMAIN argv.files : fs[argv.files[i]] \in states
\* Some error line on the error stream holds `word`.
ErrorNames(word) ==
    \E i \in DOMAIN out.stderr :
      out.stderr[i].kind = "error" /\ word \in Range(out.stderr[i].text)
StoreExecutionResult == DEFAULT_BASE_URL \o "/api/store/execution-result"

\* C1: an upload with a key in the environment and only readable files ends
\* having sent exactly one POST to /api/store/execution-result whose JSON body
\* carries the task, the file-written record, the succeeded flag and the
\* auto-vote flag.
C1_UploadPostsRequest ==
    (IsCommand("upload") /\ KeyInEnviron /\ FilesIn({"readable"}) /\ Done)
    => /\ Len(network) = 1
       /\ network[1].method = "POST"
       /\ network[1].url = StoreExecutionResult
       /\ network[1].json.task = argv.task
       /\ network[1].json.file_written.path \in Range(argv.files)
       /\ network[1].json.succeeded = argv.succeeded
       /\ network[1].json.auto_vote = ~argv.no_auto_vote

\* The two halves of C2. A constructor called without a usable key while the
\* variable is unset or empty raises RuntimeError having done nothing but look
\* for the key: no httpx client, no client object, no request.
C2_Constructor ==
    (ctor.steps # <<>> /\ ~KeyInEnviron /\ ctor.arg \in {DNull, DStr("")})
    => /\ ctor.raised
       /\ ctor.exc = "RuntimeError"
       /\ ctor.steps = <<"resolve_key">>
       /\ client = NoClient
       /\ network = <<>>
\* A remote command whose local inputs are in `states` ends, without a key,
\* with a non-zero exit code, RAYSURFER_API_KEY named on the error stream and
\* nothing sent.
C2_Command(states) ==
    (entry = "cli" /\ argv.cmd \in RemoteCommands /\ FilesIn(states)
       /\ ~KeyInEnviron /\ Done)
    => /\ exit_code \notin {Running, 0}
       /\ ErrorNames(API_KEY_VAR)
       /\ network = <<>>

\* C2 as stated: without a key the constructor fails before the HTTP client
\* exists, and every remote command -- upload with files that exist -- exits
\* non-zero naming RAYSURFER_API_KEY, with no network call.
C2_Original == C2_Constructor /\ C2_Command({"readable", "unreadable"})

\* C2, amended: ... every remote command -- upload with files that exist and
\* can be read -- exits non-zero naming RAYSURFER_API_KEY, with no network
\* call.
C2_MissingKey == C2_Constructor /\ C2_Command({"readable"})

\* An upload of two readable files without a key has ended.
C2_Witness ==
    /\ IsCommand("upload") /\ Len(argv.files) = 2 /\ FilesIn({"readable"})
    /\ ~KeyInEnviron /\ Done /\ ctor.raised

FirstMissing ==
    CHOOSE i \in DOMAIN argv.files :
      /\ fs[argv.files[i]] = "missing"
      /\ \A j \in 1..(i - 1) : fs[argv.files[j]] # "missing"
SomeMissing == \E i \in DOMAIN argv.files : fs[argv.files[i]] = "missing"
ReadableBeforeFirstMissing ==
    \A j \in 1..(FirstMissing - 1) : fs[argv.files[j]] = "readable"
MissingFileOutcome ==
    /\ exit_code \notin {Running, 0}
    /\ ErrorNames(argv.files[FirstMissing])
    /\ ctor = NoCtor /\ client = NoClient
    /\ network = <<>>

\* C3 as stated: an upload with at least one missing file exits non-zero with
\* an error naming the first missing path, constructs no client and sends
\* nothing, whatever the key and the other files.
C3_Original ==
    (IsCommand("upload") /\ SomeMissing /\ Done) => MissingFileOutcome

\* C3, amended: ... provided every file listed before the first missing one
\* can be read.
C3_MissingFile ==
    (IsCommand("upload") /\ SomeMissing /\ ReadableBeforeFirstMissing /\ Done)
    => MissingFileOutcome

\* An upload whose second file is missing, after a readable first one, with a
\* key in the environment, has ended.
C3_Witness ==
    /\ IsCommand("upload") /\ KeyInEnviron /\ Len(argv.files) = 2
    /\ fs[argv.files[1]] = "readable" /\ fs[argv.files[2]] = "missing"
    /\ Done

\* The operations of section 4.2, with the path and the response type of each.
TableOps == {"search", "upload", "vote", "patterns", "few_shot_examples"}
TablePath(op) ==
    CASE op = "search" -> "/api/retrieve/search"
      [] op = "upload" -> "/api/store/execution-result"
      [] op = "vote" -> "/api/store/cache-usage"
      [] op = "patterns" -> "/api/retrieve/task-patterns"
      [] op = "few_shot_examples" -> "/api/retrieve/few-shot-examples"
TableResponse(op) ==
    CASE op = "search" -> "SearchResponse"
      [] op = "upload" -> "UploadResponse"
      [] op = "vote" -> "VoteResponse"
      [] op = "patterns" -> "PatternsResponse"
      [] op = "few_shot_examples" -> "FewShotResponse"

Is2xx(status) == status \in 200..299
\* The operations that have come back with an HTTP response.
Answered == {i \in DOMAIN calls : calls[i].state = "done" /\ calls[i].reply.net = "ok"}

\* A JSON value that is of another JSON type than the declared one and that no
\* reading turns into it: a word for a number or a flag, a number for a
\* string, a scalar for a list, and so on down the lists and objects.
RECURSIVE Unconvertible(_, _)
UnconvertibleObject(T, w) ==
    \/ w.k # "obj"
    \/ \E fld \in DOMAIN w.f \cap DOMAIN Schema(T) :
         Unconvertible(Schema(T)[fld].type, w.f[fld])
Unconvertible(ty, w) ==
    CASE ty \in {"int", "float"} ->
           \/ w.k \in {"null", "list", "obj"}
           \/ w \in {DStr("many"), DStr("lots"), DStr("maybe")}
      [] ty = "bool" ->
           \/ w.k \in {"null", "list", "obj"}
           \/ w \in {DStr("many"), DStr("maybe"), DInt(2), DInt(5), DInt(7)}
      [] ty = "str" -> w.k # "str"
      [] ty = "list_str" ->
           w.k # "list" \/ \E i \in DOMAIN w.items : w.items[i].k # "str"
      [] ty = "opt_CodeBlock" ->
           w.k # "null" /\ UnconvertibleObject("CodeBlock", w)
      [] ty = "list_SearchMatch" ->
           w.k # "list"
           \/ \E i \in DOMAIN w.items : UnconvertibleObject("SearchMatch", w.items[i])
      [] ty = "list_PatternEntry" ->
           w.k # "list"
           \/ \E i \in DOMAIN w.items : UnconvertibleObject("PatternEntry", w.items[i])
      [] ty = "list_FewShotExample" ->
           w.k # "list"
           \/ \E i \in DOMAIN w.items : UnconvertibleObject("FewShotExample", w.items[i])
NonConforming(T, body) == body = NotJson \/ UnconvertibleObject(T, body)

\* C4: an operation answered with a status outside 2xx raises the transport
\* failure (an httpx HTTPError carrying the status) and returns nothing; one
\* answered with a 2xx status and a body that is not JSON, is not an object or
\* holds a value that cannot stand for the declared type raises a validation
\* failure (a ValueError: JSONDecodeError or ValidationError); an `except` on
\* either class does not catch the other.
C4_FailureKinds ==
    \A i \in Answered :
      LET c == calls[i]
          o == c.outcome
      IN /\ ~Is2xx(c.reply.status) =>
              /\ o.raised
              /\ o.exc = "HTTPStatusError"
              /\ o.status = c.reply.status
              /\ "HTTPError" \in ExcClasses(o.exc)
              /\ "ValueError" \notin ExcClasses(o.exc)
         /\ (Is2xx(c.reply.status) /\ NonConforming(TableResponse(c.op), c.reply.body)) =>
              /\ o.raised
              /\ o.exc \in {"JSONDecodeError", "ValidationError"}
              /\ (o.exc = "JSONDecodeError") = (c.reply.body = NotJson)
              /\ "ValueError" \in ExcClasses(o.exc)
              /\ "HTTPError" \notin ExcClasses(o.exc)

\* An asynchronous client has had one operation answered 500 and another
\* answered 200 with an object that holds an unusable value.
C4_Witness ==
    /\ client # NoClient /\ client.variant = "async"
    /\ \E i \in Answered : ~Is2xx(calls[i].reply.status)
    /\ \E i \in Answered :
         /\ Is2xx(calls[i].reply.status)
         /\ calls[i].reply.body.k = "obj"
         /\ NonConforming(TableResponse(calls[i].op), calls[i].reply.body)

\* C5: a command that ends with an error ends with exit code 1 and exactly one
\* error line (the line of _fatal) on the error stream.
C5_SingleErrorPath ==
    (entry = "cli" /\ Done /\ exit_code # 0)
    => /\ exit_code = 1
       /\ Len(out.stderr) = 1
       /\ out.stderr[1].kind = "error"

\* C6: a remote command that constructed a client never closes it twice, has
\* closed it exactly once when it renders and when it ends, on every path out
\* of the `with` block, and sends every request on the open client.
C6_ClosedExactlyOnce ==
    (entry = "cli" /\ client # NoClient)
    => /\ client.close_calls <= 1
       /\ (client.state = "closed") = (client.close_calls = 1)
       /\ pc \in {"render", "done"} => client.close_calls = 1
       /\ pc \in {"build", "call", "await"} => client.state = "open"
       /\ \A i \in DOMAIN calls : calls[i].client_state = "open"

\* An upload has left the `with` block through the exception of the request's
\* constructor, with its client closed.
C6_Witness ==
    /\ IsCommand("upload") /\ Done /\ client # NoClient
    /\ request = NoRequest /\ client.close_calls = 1

ExpectedHeaders(key) ==
    ("Authorization" :> ("Bearer " \o key))
    @@ ("Content-Type" :> "application/json")
    @@ ("User-Agent" :> "raysurfer-code-caching-cli/0.1.0")

\* C7: both client classes have the five operations of the table; every
\* operation started has sent exactly one POST, to the client's base URL
\* followed by the operation's path, with the bearer, content-type and
\* user-agent headers and the declared fields of the request as its body; the
\* other class sends the same request and, on the same answer, has the same
\* outcome.
C7_OnePostPerOperation ==
    /\ SyncOps = TableOps /\ AsyncOps = TableOps /\ Cardinality(TableOps) = 5
    /\ Len(network) = Len(calls)
    /\ \A i \in DOMAIN calls :
         LET c == calls[i]
             sent == network[i]
         IN /\ sent.method = "POST"
            /\ sent.url = client.base_url \o TablePath(c.op)
            /\ sent.headers = ExpectedHeaders(client.api_key)
            /\ DOMAIN sent.json = DOMAIN Schema(OpRequestModel(c.op))
            /\ \A fld \in DOMAIN sent.json :
                 Schema(OpRequestModel(c.op))[fld].type \in {"int", "float", "bool", "str"}
                 => sent.json[fld] = c.request.fields[fld]
            /\ sent = SyncSend(client, c.op, c.request)
            /\ sent = AsyncSend(client, c.op, c.request)
            /\ c.state = "done" =>
                 /\ c.outcome = SyncFinish(c.op, c.reply)
                 /\ c.outcome = AsyncFinish(c.op, c.reply)

\* An asynchronous client has had a vote answered and parsed.
C7_Witness ==
    /\ client # NoClient /\ client.variant = "async"
    /\ \E i \in DOMAIN calls :
         /\ calls[i].op = "vote" /\ calls[i].state = "done"
         /\ ~calls[i].outcome.raised

\* C8: a command that ends with an error, or has written to the error stream,
\* has written nothing to standard output.
C8_NoOutputOnError ==
    entry = "cli" =>
      /\ exit_code \notin {Running, 0} => out.stdout = <<>>
      /\ out.stderr # <<>> => out.stdout = <<>>

\* A search whose operation raised has ended.
C8_Witness ==
    /\ IsCommand("search") /\ Done /\ exit_code = 1
    /\ calls # <<>> /\ calls[1].outcome.raised

\* The declared type and the JSON type of the value differ.
TypeDiffers(ty, w) ==
    CASE ty = "int" -> w.k # "int"
      [] ty = "float" -> w.k \notin {"int", "float"}
      [] ty = "bool" -> w.k # "bool"
      [] ty = "str" -> w.k # "str"
      [] OTHER -> FALSE

\* C9: an operation answered 2xx with an object in which a documented field
\* holds a value of another type than declared raises the validation failure.
C9_NoCoercion ==
    \A i \in Answered :
      LET c == calls[i]
          sch == Schema(TableResponse(c.op))
      IN (/\ Is2xx(c.reply.status)
          /\ c.reply.body.k = "obj"
          /\ \E fld \in DOMAIN c.reply.body.f \cap DOMAIN sch :
               TypeDiffers(sch[fld].type, c.reply.body.f[fld]))
         => (c.outcome.raised /\ c.outcome.exc = "ValidationError")

\* The answer search was given, and the matches in it.
SearchAnswer == calls[1].reply.body.f
AnswerMatches ==
    IF "matches" \in DOMAIN SearchAnswer THEN SearchAnswer.matches.items ELSE <<>>
\* Row `row` shows match `m` of the parsed response.
RowShows(row, m) ==
    /\ row.votes = <<m.fields.thumbs_up, m.fields.thumbs_down>>
    /\ row.score * 10 \in (m.fields.combined_score - 5)..(m.fields.combined_score + 5)
    /\ \/ ~IsNone(m.fields.code_block) /\ row.name = m.fields.code_block.fields.name
       \/ row.name = m.fields.filename
       \/ row.name = "unnamed"
\* Match `m` of the parsed response is item `w` of the answer.
MatchIs(m, w) ==
    /\ ("filename" \in DOMAIN w.f) => m.fields.filename = w.f.filename.s
    /\ ("filename" \notin DOMAIN w.f) => m.fields.filename = ""
    /\ ("code_block" \in DOMAIN w.f /\ w.f.code_block.k = "obj")
         = ~IsNone(m.fields.code_block)

\* C10: a search that succeeded in human mode has written the summary with the
\* server's total_found and then, for n >= 1 matches, one table of n rows, row
\* i numbered i and showing the i-th match of the answer; for no match, the
\* summary and no table.
C10_SearchTable ==
    (IsCommand("search") /\ Done /\ exit_code = 0 /\ ~argv.json_output)
    => LET ms == response.fields.matches
           n == Len(AnswerMatches)
           tables == {i \in DOMAIN out.stdout : out.stdout[i].kind = "table"}
       IN /\ out.stdout[1].kind = "summary"
          /\ out.stdout[1].found = response.fields.total_found
          /\ ("total_found" \in DOMAIN SearchAnswer
                /\ SearchAnswer.total_found.k = "int")
               => out.stdout[1].found = SearchAnswer.total_found.n
          /\ n = 0 => tables = {}
          /\ n >= 1 =>
               /\ tables = {2}
               /\ Len(out.stdout[2].rows) = n
               /\ \A i \in 1..n :
                    /\ out.stdout[2].rows[i].idx = i
                    /\ RowShows(out.stdout[2].rows[i], ms[i])
                    /\ MatchIs(ms[i], AnswerMatches[i])

\* A search answered with three matches and a total of 7 has rendered them.
C10_Witness ==
    /\ IsCommand("search") /\ Done /\ exit_code = 0 /\ ~argv.json_output
    /\ Len(response.fields.matches) = 3
    /\ response.fields.matches[1] # response.fields.matches[3]
    /\ SearchAnswer.total_found = DInt(7)

\* C11: the version command never constructs a client and never sends a
\* request; it writes the fixed version identifier to standard output, as the
\* JSON object {"version": <identifier>} with --json and as plain text
\* otherwise, writes nothing to the error stream and ends with exit code 0,
\* whatever the environment holds for RAYSURFER_API_KEY.
C11_VersionLocal ==
    IsCommand("version")
    => /\ ctor = NoCtor
       /\ client = NoClient
       /\ request = NoRequest
       /\ network = <<>>
       /\ calls = <<>>
       /\ out.stderr = <<>>
       /\ ~Done => (exit_code = Running /\ out.stdout = <<>>)
       /\ Done =>
            /\ exit_code = 0
            /\ Len(out.stdout) = 1
            /\ IF argv.json_output
               THEN /\ out.stdout[1].kind = "json"
                    /\ out.stdout[1].value = [version |-> "0.1.0"]
               ELSE /\ out.stdout[1].kind = "text"
                    /\ "0.1.0" \in Range(out.stdout[1].text)
C11_Witness ==
    /\ IsCommand("version") /\ Done /\ argv.json_output /\ ~KeyInEnviron
    /\ out.stdout # <<>>

\* C12: on one AsyncRaysurferClient, with several operations in flight and
\* answered in any order, the client's API key, base URL, headers and timeout
\* stay what the constructor made them; every operation sends the request a
\* lone operation on the client as constructed sends for its own request
\* model, and ends with the outcome a lone operation has for its own answer.
C12_IndependentOperations ==
    (entry = "api" /\ client # NoClient /\ client.variant = "async")
    => /\ client.api_key = ctor.client.api_key
       /\ client.base_url = ctor.client.base_url
       /\ client.headers = ctor.client.headers
       /\ client.timeout = ctor.client.timeout
       /\ Len(network) = Len(calls)
       /\ \A i \in DOMAIN calls :
            /\ network[i] = AsyncSend(ctor.client, calls[i].op, calls[i].request)
            /\ calls[i].state = "inflight" => calls[i].outcome = NoOutcome
            /\ calls[i].state = "done"
                 => calls[i].outcome = AsyncFinish(calls[i].op, calls[i].reply)
\* The second of two operations in flight on an asynchronous client has come
\* back with a parsed response while the first is still waiting.
C12_Witness ==
    /\ entry = "api" /\ client # NoClient /\ client.variant = "async"
    /\ Len(calls) = 2
    /\ calls[1].op # calls[2].op
    /\ calls[1].state = "inflight"
    /\ calls[2].state = "done" /\ ~calls[2].outcome.raised

\* The two halves of C13 for one command whose local inputs are in order (a
\* key in the environment, every file readable): the command has run its
\* remote operation once; it ends with exit code 0 exactly when the operation
\* returned a parsed response, then with its message on standard output and
\* nothing on the error stream, the text reading `failed` when the response's
\* success flag is false; it ends with exit code 1 and an error on the error
\* stream, nothing on standard output, exactly when the operation raised.
C13_Outcome(cmd, failed) ==
    (IsCommand(cmd) /\ KeyInEnviron /\ FilesIn({"readable"}) /\ Done)
    => /\ Len(calls) = 1
       /\ calls[1].state = "done"
       /\ exit_code = (IF calls[1].outcome.raised THEN 1 ELSE 0)
       /\ calls[1].outcome.raised
            => /\ out.stdout = <<>>
               /\ Len(out.stderr) = 1
       /\ ~calls[1].outcome.raised
            => /\ Is2xx(calls[1].reply.status)
               /\ out.stderr = <<>>
               /\ out.stdout # <<>>
               /\ (~argv.json_output /\ ~response.fields.success)
                    => /\ out.stdout[1].kind = "text"
                       /\ out.stdout[1].text[1] = failed
C13_Vote == C13_Outcome("vote", "Vote failed.")
C13_VoteRejected ==
    /\ IsCommand("vote") /\ Done /\ exit_code = 0 /\ ~argv.json_output
    /\ ~response.fields.success

\* C13: for the vote and upload commands the exit code depends only on
\* whether the remote operation returned a parsed 2xx response: exit code 0
\* and the message on standard output whenever it did, also with a false
\* success flag ("Vote failed." / "Upload failed."); the error stream and exit
\* code 1 only when the operation itself raised.
C13_ExitCodeFollowsOperation ==
    /\ C13_Outcome("vote", "Vote failed.")
    /\ C13_Outcome("upload", "Upload failed.")

====
